---- MODULE Spec2Model ----
(***************************************************************************)
(* Model of chop/stochastic.py: the stochastic optimizers PGD, PGDMadry,   *)
(* S3CM, FrankWolfe, PairwiseFrankWolfe and the backtracking line search.  *)
(*                                                                         *)
(* Abstractions.                                                           *)
(*  - A parameter is a one-element tensor, so every tensor is one number   *)
(*    and torch.norm is the absolute value.                                *)
(*  - Floating-point numbers are exact: a number is (n/d) * 2^e with n, d  *)
(*    odd and coprime, d > 0 (zero is 0/1 * 2^0).  The power of two is     *)
(*    kept apart so that the line search, whose Lipschitz estimate doubles *)
(*    up to 100 times, stays inside TLC's 32-bit integers (TLC reports an  *)
(*    overflow instead of wrapping).                                       *)
(*  - A constraint oracle is named by a positive integer r and is the      *)
(*    interval [-r, r]; 0 names Python's None.                             *)
(***************************************************************************)
EXTENDS Integers, Sequences, FiniteSets, TLC

(***************************************************************************)
(* Exact numbers                                                           *)
(***************************************************************************)
Abs(i) == IF i < 0 THEN 0 - i ELSE i

Min2(i, j) == IF i <= j THEN i ELSE j

RECURSIVE GCD(_, _)
GCD(a, b) == IF b = 0 THEN a ELSE GCD(b, a % b)

\* the number of times 2 divides i (i # 0)
RECURSIVE TwoAdic(_)
TwoAdic(i) == IF i % 2 = 0 THEN 1 + TwoAdic(i \div 2) ELSE 0

Zero == [n |-> 0, d |-> 1, e |-> 0]

\* the number (nn/dd) * 2^ee in canonical form (dd > 0)
Norm(nn, dd, ee) ==
    IF nn = 0 THEN Zero
    ELSE LET tn == TwoAdic(Abs(nn))
             td == TwoAdic(dd)
             n1 == nn \div (2 ^ tn)
             d1 == dd \div (2 ^ td)
             g  == GCD(Abs(n1), d1)
         IN  [n |-> n1 \div g, d |-> d1 \div g, e |-> ee + tn - td]

\* the rational nn/dd (dd > 0)
R(nn, dd) == Norm(nn, dd, 0)

\* the integer i
N(i) == Norm(i, 1, 0)

\* 2^k for any integer k
Pow2(k) == [n |-> 1, d |-> 1, e |-> k]

Neg(a) == [n |-> 0 - a.n, d |-> a.d, e |-> a.e]

Mul(a, b) == Norm(a.n * b.n, a.d * b.d, a.e + b.e)

Add(a, b) ==
    IF a.n = 0 THEN b
    ELSE IF b.n = 0 THEN a
    ELSE LET m == Min2(a.e, b.e)
         IN  Norm(a.n * b.d * (2 ^ (a.e - m)) + b.n * a.d * (2 ^ (b.e - m)),
                  a.d * b.d, m)

Sub(a, b) == Add(a, Neg(b))

\* a / b for b # 0
Div(a, b) ==
    IF b.n < 0 THEN Norm((0 - a.n) * b.d, a.d * (0 - b.n), a.e - b.e)
    ELSE Norm(a.n * b.d, a.d * b.n, a.e - b.e)

Sign(a) == IF a.n > 0 THEN 1 ELSE IF a.n < 0 THEN 0 - 1 ELSE 0

AbsR(a) == [n |-> Abs(a.n), d |-> a.d, e |-> a.e]

\* i * 2^g < j for naturals i >= 1, j and g >= 0, within 32-bit integers
ScaledLess(i, g, j) ==
    IF g > 30 THEN FALSE
    ELSE IF i > 2147483647 \div (2 ^ g) THEN FALSE
    ELSE i * (2 ^ g) < j

\* i < j * 2^g for naturals i, j >= 1 and g >= 0, within 32-bit integers
LessScaled(i, j, g) ==
    IF g > 30 THEN TRUE
    ELSE IF j > 2147483647 \div (2 ^ g) THEN TRUE
    ELSE i < j * (2 ^ g)

\* a < b for a, b > 0
PosLess(a, b) ==
    IF a.e >= b.e THEN ScaledLess(a.n * b.d, a.e - b.e, b.n * a.d)
    ELSE LessScaled(a.n * b.d, b.n * a.d, b.e - a.e)

Less(a, b) ==
    IF Sign(a) # Sign(b) THEN Sign(a) < Sign(b)
    ELSE IF Sign(a) = 0 THEN FALSE
    ELSE IF Sign(a) > 0 THEN PosLess(a, b)
    ELSE PosLess(AbsR(b), AbsR(a))

Leq(a, b) == ~Less(b, a)

\* |a| <= |b|
AbsLeq(a, b) == Leq(AbsR(a), AbsR(b))

\* the sign of u + t, whatever their magnitudes
SignSum2(u, t) ==
    IF Sign(u) = 0 THEN Sign(t)
    ELSE IF Sign(t) = 0 \/ Sign(t) = Sign(u) THEN Sign(u)
    ELSE IF Less(AbsR(t), AbsR(u)) THEN Sign(u)
    ELSE IF Less(AbsR(u), AbsR(t)) THEN Sign(t)
    ELSE 0

\* the sign of t1 + t2 + t3 for |t1| >= |t2| >= |t3|: t1 decides when it is
\* more than four times t2, and otherwise t1 + t2 is a sum of neighbours
SignSorted(t1, t2, t3) ==
    IF Less(Mul(N(4), AbsR(t2)), AbsR(t1)) THEN Sign(t1)
    ELSE SignSum2(Add(t1, t2), t3)

\* the sign of a + b + c, whatever their magnitudes
SignSum3(a, b, c) ==
    IF AbsLeq(b, a) /\ AbsLeq(c, a)
    THEN (IF AbsLeq(c, b) THEN SignSorted(a, b, c) ELSE SignSorted(a, c, b))
    ELSE IF AbsLeq(a, b) /\ AbsLeq(c, b)
    THEN (IF AbsLeq(c, a) THEN SignSorted(b, a, c) ELSE SignSorted(b, c, a))
    ELSE (IF AbsLeq(b, a) THEN SignSorted(c, a, b) ELSE SignSorted(c, b, a))

MinR(a, b) == IF Less(b, a) THEN b ELSE a

MaxR(a, b) == IF Less(a, b) THEN b ELSE a

(***************************************************************************)
(* Bounds and inputs                                                       *)
(***************************************************************************)
\* number of registered parameters
NParams == 2

\* number of step() calls in one behaviour
MaxSteps == 3

Positions == 1 .. NParams

\* Python's None in a list of oracles
NoneO == 0

\* the value every parameter holds when the optimizer is constructed
InitialValue == N(3)

\* the learning-rate, momentum argument as passed: its Python type and value
PyFloat(r) == [t |-> "float", v |-> r, s |-> ""]

PyInt(i) == [t |-> "int", v |-> N(i), s |-> ""]

PyStr(str) == [t |-> "str", v |-> Zero, s |-> str]

\* lists of oracles, one per parameter: all None, the oracles 1..n in order,
\* and the oracles in order with None last
AllNone == [i \in Positions |-> NoneO]

Ascending == [i \in Positions |-> i]

NoneLast == [i \in Positions |-> IF i = NParams THEN NoneO ELSE i]

\* a gradient as step() finds it in p.grad
GNone == [t |-> "none", v |-> Zero]

GSparse(v) == [t |-> "sparse", v |-> v]

GDense(v) == [t |-> "dense", v |-> v]

\* the dense gradient the training loop computes at its k-th step() call:
\* the gradients 1, 2, 3, ... in sequence
DenseGrad(k) == N(k)

\* the gradients of one step() call: every parameter is dense, but for at
\* most one absent one and at most one sparse one after it
GradVectors(k) ==
    { [i \in Positions |->
          IF i = ab[1] THEN GNone
          ELSE IF i = ab[2] THEN GSparse(DenseGrad(k))
          ELSE GDense(DenseGrad(k))] :
      ab \in { x \in (0 .. NParams) \X (0 .. NParams) : x[2] = 0 \/ x[2] > x[1] } }

(***************************************************************************)
(* State                                                                   *)
(***************************************************************************)
VARIABLES
    kind,      \* class of the optimizer that exists: "none" before construction
    cfg,       \* its configuration (self.lr, self.momentum, ...)
    prox,      \* self.prox / self.prox1: what each wrapper calls
    prox2,     \* self.prox2
    lmo,       \* self.lmo
    args,      \* the oracle lists the constructor was given
    p,         \* the parameters' values
    state,     \* self.state[p] of each parameter
    grads,     \* p.grad of each parameter at the last step() call
    calls,     \* step() calls made
    trace,     \* what the last step() did at each position (idx, oracles called)
    ghist,     \* the gradients step() has consumed for each parameter, in order
    lastOp,    \* the last constructor or step() call and how it ended
    ls         \* the backtracking line search's frame

vars == <<kind, cfg, prox, prox2, lmo, args, p, state, grads, calls,
          trace, ghist, lastOp, ls>>

optVars == <<kind, cfg, prox, prox2, lmo, args, p, state, grads, calls,
             trace, ghist, lastOp>>

\* an empty state dict (len(state) == 0)
EmptyState ==
    [has |-> FALSE, step |-> 0, grad_estimate |-> Zero, iterate_1 |-> Zero,
     iterate_2 |-> Zero, dual |-> Zero, hasCert |-> FALSE, certificate |-> Zero]

NoCfg ==
    [lr |-> PyStr(""), momentum |-> PyStr(""), weight_decay |-> Zero,
     normalization |-> ""]

\* a wrapper appended to self.prox / self.lmo: the identity, or a call of
\* oracle `target` (target = NoneO: a call of None)
IdentityW == [id |-> TRUE, target |-> NoneO]

CallW(r) == [id |-> FALSE, target |-> r]

\* what step() did at one position: the idx it indexed the oracle lists with
\* (-1: the parameter was not processed), the oracles it called, and the step
\* size it used
Did(idx, called, step_size) ==
    [idx |-> idx, called |-> called, step_size |-> step_size]

NoTrace == [i \in Positions |-> Did(0 - 1, {}, Zero)]

NoArgs == [prox |-> AllNone, prox2 |-> AllNone, lmo |-> AllNone]

\* old_f_t: a float, or None
NoFloat == [has |-> FALSE, v |-> Zero]

SomeFloat(v) == [has |-> TRUE, v |-> v]

\* the line search before it is called
LsIdle ==
    [pc |-> "idle", x |-> Zero, f_t |-> Zero, old_f_t |-> NoFloat, f_grad |-> "",
     certificate |-> Zero, lipschitz_in |-> Zero, max_step_size |-> Zero,
     update_direction |-> Zero, norm_update_direction |-> Zero,
     lipschitz_t |-> Zero, trials |-> 0, step_size_t |-> Zero, f_next |-> Zero,
     grad_next |-> Zero, warned |-> FALSE, err |-> "none"]

OptInit ==
    /\ kind = "none"
    /\ cfg = NoCfg
    /\ prox = <<>>
    /\ prox2 = <<>>
    /\ lmo = <<>>
    /\ args = NoArgs
    /\ p = [i \in Positions |-> InitialValue]
    /\ state = [i \in Positions |-> EmptyState]
    /\ grads = [i \in Positions |-> GNone]
    /\ calls = 0
    /\ trace = NoTrace
    /\ ghist = [i \in Positions |-> <<>>]
    /\ lastOp = [op |-> "none", cls |-> "none", err |-> "none", errAt |-> 0,
                 registered |-> FALSE]

(***************************************************************************)
(* Constraint oracles (chop.constraints, consumed through prox and lmo):   *)
(* oracle r is the interval [-r, r]                                        *)
(***************************************************************************)
\* prox: the projection onto [-r, r]
OracleProx(r, x) ==
    IF Less(N(r), x) THEN N(r)
    ELSE IF Less(x, N(0 - r)) THEN N(0 - r)
    ELSE x

\* lmo(u, x): the direction from x to the vertex r*sign(u) maximising <u, s>
OracleLmo(r, u, x) == Sub(N(r * Sign(u)), x)

(***************************************************************************)
(* Constructors                                                            *)
(***************************************************************************)
\* the value a loop variable captured by a closure holds once the loop is
\* over: the last element of the list
LateBound(list) == list[Len(list)]

\* PGD: `lambda x, s=None: prox_el(...)` reads prox_el when it is called
PGDWrappers(list) ==
    [i \in 1 .. Len(list) |->
        IF list[i] # NoneO THEN CallW(LateBound(list)) ELSE IdentityW]

\* PGDMadry, S3CM: a None element rebinds the loop variable to the identity,
\* and every wrapper reads the loop variable when it is called
RebindingWrappers(list) ==
    [i \in 1 .. Len(list) |->
        IF LateBound(list) = NoneO THEN IdentityW ELSE CallW(LateBound(list))]

\* PGDMadry, FrankWolfe: `_lmo` reads lmo_el / oracle when it is called
LmoWrappers(list) == [i \in 1 .. Len(list) |-> CallW(LateBound(list))]

IsFloat(a) == a.t = "float"

IsSublinear(a) == a.t = "str" /\ a.s = "sublinear"

\* type(lr) == float or lr == 'sublinear'
LrFloatOrSublinear(lr) == IsFloat(lr) \/ IsSublinear(lr)

\* type(momentum) == float and not 0. <= momentum <= 1.
MomentumRejected(m) ==
    IsFloat(m) /\ ~(Leq(Zero, m.v) /\ Leq(m.v, N(1)))

PGD_NORMALIZATIONS == {"none", "L2", "Linf", "sign"}

FW_NORMALIZATIONS == {"gradient", "none"}

Raised(op, cls, err, at, reg) ==
    [op |-> op, cls |-> cls, err |-> err, errAt |-> at, registered |-> reg]

\* a constructor raised: no instance is bound, nothing else changes
ConstructFails(cls, err, reg) ==
    /\ lastOp' = Raised("construct", cls, err, 0, reg)
    /\ UNCHANGED <<kind, cfg, prox, prox2, lmo, args, p, state, grads, calls,
                   trace, ghist>>

\* a constructor returned: Optimizer.__init__ registered the parameters with
\* an empty state
Constructed(cls, c, px, px2, lm, a) ==
    /\ kind' = cls
    /\ cfg' = c
    /\ prox' = px
    /\ prox2' = px2
    /\ lmo' = lm
    /\ args' = a
    /\ state' = [i \in Positions |-> EmptyState]
    /\ lastOp' = Raised("construct", cls, "none", 0, TRUE)
    /\ UNCHANGED <<p, grads, calls, trace, ghist>>

PGDInit(proxArg, lr, momentum, normalization) ==
    /\ kind = "none"
    /\ IF ~LrFloatOrSublinear(lr)
       THEN ConstructFails("PGD", "ValueError", FALSE)
       ELSE IF MomentumRejected(momentum)
       THEN ConstructFails("PGD", "ValueError", FALSE)
       ELSE IF normalization \notin PGD_NORMALIZATIONS
       THEN ConstructFails("PGD", "ValueError", FALSE)
       ELSE Constructed("PGD",
                [lr |-> lr, momentum |-> momentum, weight_decay |-> Zero,
                 normalization |-> normalization],
                PGDWrappers(proxArg), <<>>, <<>>,
                [prox |-> proxArg, prox2 |-> AllNone, lmo |-> AllNone])

PGDMadryInit(lmoArg, proxArg, lr) ==
    /\ kind = "none"
    /\ IF ~LrFloatOrSublinear(lr)
       THEN ConstructFails("PGD-Madry", "ValueError", FALSE)
       ELSE Constructed("PGD-Madry",
                [lr |-> lr, momentum |-> PyStr(""), weight_decay |-> Zero,
                 normalization |-> ""],
                RebindingWrappers(proxArg), <<>>, LmoWrappers(lmoArg),
                [prox |-> proxArg, prox2 |-> AllNone, lmo |-> lmoArg])

S3CMInit(prox1Arg, prox2Arg, lr, normalization) ==
    /\ kind = "none"
    /\ IF ~IsFloat(lr)
       THEN ConstructFails("S3CM", "ValueError", FALSE)
       ELSE IF normalization \notin PGD_NORMALIZATIONS
       THEN ConstructFails("S3CM", "ValueError", FALSE)
       ELSE Constructed("S3CM",
                [lr |-> lr, momentum |-> PyStr(""), weight_decay |-> Zero,
                 normalization |-> normalization],
                RebindingWrappers(prox1Arg), RebindingWrappers(prox2Arg), <<>>,
                [prox |-> prox1Arg, prox2 |-> prox2Arg, lmo |-> AllNone])

\* type(lr) == float and not 0. < lr <= 1.
FWLrRejected(lr) == IsFloat(lr) /\ ~(Less(Zero, lr.v) /\ Leq(lr.v, N(1)))

FrankWolfeInit(lmoArg, lr, momentum, weight_decay, normalization) ==
    /\ kind = "none"
    /\ IF FWLrRejected(lr)
       THEN ConstructFails("Frank-Wolfe", "ValueError", FALSE)
       ELSE IF MomentumRejected(momentum)
       THEN ConstructFails("Frank-Wolfe", "ValueError", FALSE)
       ELSE IF ~Leq(Zero, weight_decay)
       THEN ConstructFails("Frank-Wolfe", "ValueError", FALSE)
       ELSE IF normalization \notin FW_NORMALIZATIONS
       THEN ConstructFails("Frank-Wolfe", "ValueError", FALSE)
       ELSE Constructed("Frank-Wolfe",
                [lr |-> lr, momentum |-> momentum, weight_decay |-> weight_decay,
                 normalization |-> normalization],
                <<>>, <<>>, LmoWrappers(lmoArg),
                [prox |-> AllNone, prox2 |-> AllNone, lmo |-> lmoArg])

\* the lr check, then the whole instance is built and registered, then
\* NotImplementedError
PairwiseFrankWolfeInit(lr, momentum) ==
    /\ kind = "none"
    /\ IF ~LrFloatOrSublinear(lr)
       THEN ConstructFails("Pairwise-FW", "ValueError", FALSE)
       ELSE ConstructFails("Pairwise-FW", "NotImplementedError", TRUE)

(***************************************************************************)
(* step(): one pass over the registered parameters.  The pass is carried   *)
(* in a record c: the parameters and their states so far, idx, what was    *)
(* done at each position, and the exception that ended the pass, if any.   *)
(***************************************************************************)
NaN == [n |-> 0, d |-> 0, e |-> 0]

\* a one-element tensor divided by its own norm
Unit(grad) == IF grad.n = 0 THEN NaN ELSE N(Sign(grad))

NormalizeGradient(grad, normalization) ==
    IF normalization = "none" THEN grad
    ELSE IF normalization = "Linf" THEN Unit(grad)
    ELSE IF normalization = "sign" THEN N(Sign(grad))
    ELSE IF normalization = "L2" THEN Unit(grad)
    ELSE grad

\* an average that weights the new gradient by momentum instead of 1 - momentum
EMASwapped(old, grad, momentum) == Add(old, Mul(momentum, Sub(grad, old)))

\* state['grad_estimate'].add_(grad - state['grad_estimate'], alpha=1. - momentum)
EMA(old, grad, momentum) == Add(old, Mul(Sub(N(1), momentum), Sub(grad, old)))

\* a sublinear rate that is one step ahead
SublinearAhead(step) == R(1, step + 2)

\* 1. / (state['step'] + 1.)
Sublinear(step) == R(1, step + 1)

StartPass ==
    [p |-> p, state |-> state, idx |-> 0, trace |-> NoTrace, ghist |-> ghist,
     err |-> "none", errAt |-> 0]

\* a pass that counts a step for a parameter before looking at its gradient
ContinueCounted(c, i) ==
    [c EXCEPT !.state[i].has = TRUE, !.state[i].step = @ + 1]

\* `if p.grad is None: continue`
Continue(c, i) == c

\* `raise RuntimeError(...)` on a sparse gradient, and any other exception
\* that leaves the pass at position i
Abort(c, i, err) == [c EXCEPT !.err = err, !.errAt = i]

\* a sparse-gradient check placed after the state's initialization
SparseAbortLate(c, i) ==
    Abort([c EXCEPT !.state[i].has = TRUE], i, "RuntimeError")

SparseAbort(c, i) == Abort(c, i, "RuntimeError")

\* the wrapper self.prox[idx] applied to x
ProxCall(w, x) == IF w.id THEN x ELSE OracleProx(w.target, x)

\* a wrapper whose captured variable is None: calling it is a TypeError
CallsNone(w) == ~w.id /\ w.target = NoneO

CalledBy(name, w) == IF w.id THEN {} ELSE {<<name, w.target>>}

\* torch.norm((p - new_p) / step_size)
ProxCertificate(old, new, step_size) == AbsR(Div(Sub(old, new), step_size))

\* PGD.step, one parameter with a dense gradient
PGDUpdate(c, i, grad) ==
    LET st0 == c.state[i]
        st1 == IF ~st0.has
               THEN [st0 EXCEPT !.has = TRUE, !.step = 0, !.grad_estimate = Zero]
               ELSE st0
        st2 == [st1 EXCEPT !.step = @ + 1,
                           !.grad_estimate = EMA(@, grad, cfg.momentum.v)]
        grad_est == NormalizeGradient(st2.grad_estimate, cfg.normalization)
        step_size == IF IsSublinear(cfg.lr) THEN Sublinear(st2.step) ELSE cfg.lr.v
        w == prox[c.idx + 1]
        new_p == ProxCall(w, Sub(c.p[i], Mul(step_size, grad_est)))
        c1 == [c EXCEPT !.state[i] = st2,
                        !.ghist[i] = Append(@, grad),
                        !.trace[i] = Did(c.idx, CalledBy("prox", w), step_size)]
    IN  IF CallsNone(w) THEN Abort(c1, i, "TypeError")
        ELSE [c1 EXCEPT !.state[i].hasCert = TRUE,
                        !.state[i].certificate =
                            ProxCertificate(c.p[i], new_p, step_size),
                        !.p[i] = new_p,
                        !.idx = @ + 1]

PGDParam(c, i, g) ==
    IF g[i].t = "none" THEN Continue(c, i)
    ELSE IF g[i].t = "sparse" THEN SparseAbort(c, i)
    ELSE PGDUpdate(c, i, g[i].v)

RECURSIVE PGDLoop(_, _, _)
PGDLoop(c, i, g) ==
    IF i > NParams \/ c.err # "none" THEN c
    ELSE PGDLoop(PGDParam(c, i, g), i + 1, g)

\* PGDMadry.step, one parameter with a dense gradient
MadryUpdate(c, i, grad) ==
    LET st0 == c.state[i]
        st1 == IF ~st0.has THEN [st0 EXCEPT !.has = TRUE, !.step = 0] ELSE st0
        st2 == [st1 EXCEPT !.step = @ + 1]
        step_size == IF IsSublinear(cfg.lr) THEN Sublinear(st2.step) ELSE cfg.lr.v
        wl == lmo[c.idx + 1]
        wp == prox[c.idx + 1]
        lmo_res == OracleLmo(wl.target, Neg(grad), c.p[i])
        normalized_grad == Add(lmo_res, c.p[i])
        new_p == ProxCall(wp, Add(c.p[i], Mul(step_size, normalized_grad)))
        c1 == [c EXCEPT !.state[i] = st2,
                        !.ghist[i] = Append(@, grad),
                        !.trace[i] = Did(c.idx, CalledBy("lmo", wl)
                                                 \cup CalledBy("prox", wp),
                                          step_size)]
    IN  IF CallsNone(wl) THEN Abort(c1, i, "TypeError")
        ELSE [c1 EXCEPT !.state[i].hasCert = TRUE,
                        !.state[i].certificate =
                            ProxCertificate(c.p[i], new_p, step_size),
                        !.p[i] = new_p,
                        !.idx = @ + 1]

MadryParam(c, i, g) ==
    IF g[i].t = "none" THEN Continue(c, i)
    ELSE IF g[i].t = "sparse" THEN SparseAbort(c, i)
    ELSE MadryUpdate(c, i, g[i].v)

RECURSIVE MadryLoop(_, _, _)
MadryLoop(c, i, g) ==
    IF i > NParams \/ c.err # "none" THEN c
    ELSE MadryLoop(MadryParam(c, i, g), i + 1, g)

\* a commit of the gradient iterate instead of the prox2 iterate
S3CMCommitIterate1(st) == st.iterate_1

\* what S3CM.step writes into the parameter: p.copy_(state['iterate_2'])
S3CMCommit(st) == st.iterate_2

\* S3CM.step, one parameter with a dense gradient (already normalized)
S3CMUpdate(c, i, grad) ==
    LET lr == cfg.lr.v
        w1 == prox[c.idx + 1]
        w2 == prox2[c.idx + 1]
        st0 == c.state[i]
        st1 == IF ~st0.has
               THEN LET it1 == c.p[i]
                        it2 == ProxCall(w2, c.p[i])
                    IN  [st0 EXCEPT !.has = TRUE, !.step = 0,
                                    !.iterate_1 = it1, !.iterate_2 = it2,
                                    !.dual = Div(Sub(it1, it2), lr)]
               ELSE st0
        it2 == ProxCall(w2, Add(st1.iterate_1, Mul(lr, st1.dual)))
        dual == Add(st1.dual, Div(Sub(st1.iterate_1, it2), lr))
        it1 == ProxCall(w1, Sub(it2, Mul(lr, Add(grad, dual))))
        st2 == [st1 EXCEPT !.iterate_2 = it2, !.dual = dual, !.iterate_1 = it1]
    IN  [c EXCEPT !.state[i] = st2,
                  !.ghist[i] = Append(@, grad),
                  !.trace[i] = Did(c.idx, CalledBy("prox1", w1)
                                           \cup CalledBy("prox2", w2), lr),
                  !.p[i] = S3CMCommit(st2),
                  !.idx = @ + 1]

S3CMParam(c, i, g) ==
    IF g[i].t = "none" THEN Continue(c, i)
    ELSE IF g[i].t = "sparse" THEN SparseAbort(c, i)
    ELSE S3CMUpdate(c, i, NormalizeGradient(g[i].v, cfg.normalization))

RECURSIVE S3CMLoop(_, _, _)
S3CMLoop(c, i, g) ==
    IF i > NParams \/ c.err # "none" THEN c
    ELSE S3CMLoop(S3CMParam(c, i, g), i + 1, g)

\* min(1., step_size * grad_norm / torch.linalg.norm(update_direction)):
\* a zero direction makes the quotient inf or nan, and min keeps 1.
GradientStepSize(step_size, grad_estimate, update_direction) ==
    IF update_direction.n = 0 THEN N(1)
    ELSE MinR(N(1), Div(Mul(step_size, AbsR(grad_estimate)),
                        AbsR(update_direction)))

\* FrankWolfe.step, one parameter with a dense gradient
FWUpdate(c, i, pgrad) ==
    LET grad == Add(pgrad, Mul(cfg.weight_decay, c.p[i]))
        st0 == c.state[i]
        st1 == IF ~st0.has
               THEN [st0 EXCEPT !.has = TRUE, !.step = 0, !.grad_estimate = Zero]
               ELSE st0
        lr_size == IF IsSublinear(cfg.lr) THEN Sublinear(st1.step) ELSE cfg.lr.v
        st2 == [st1 EXCEPT !.step = @ + 1,
                           !.grad_estimate = EMA(@, grad, cfg.momentum.v)]
        w == lmo[c.idx + 1]
        update_direction == OracleLmo(w.target, Neg(st2.grad_estimate), c.p[i])
        certificate == Mul(Neg(st2.grad_estimate), update_direction)
        step_size == IF cfg.normalization = "gradient"
                     THEN GradientStepSize(lr_size, st2.grad_estimate,
                                           update_direction)
                     ELSE lr_size
        c1 == [c EXCEPT !.state[i] = st2,
                        !.ghist[i] = Append(@, grad),
                        !.trace[i] = Did(c.idx, CalledBy("lmo", w), step_size)]
    IN  IF ~(IsSublinear(cfg.lr) \/ IsFloat(cfg.lr))
        THEN Abort([c EXCEPT !.state[i] = st1], i, "ValueError")
        ELSE IF CallsNone(w) THEN Abort(c1, i, "TypeError")
        ELSE [c1 EXCEPT !.state[i].hasCert = TRUE,
                        !.state[i].certificate = certificate,
                        !.p[i] = Add(c.p[i], Mul(step_size, update_direction)),
                        !.idx = @ + 1]

FWParam(c, i, g) ==
    IF g[i].t = "none" THEN Continue(c, i)
    ELSE IF g[i].t = "sparse" THEN SparseAbort(c, i)
    ELSE FWUpdate(c, i, g[i].v)

RECURSIVE FWLoop(_, _, _)
FWLoop(c, i, g) ==
    IF i > NParams \/ c.err # "none" THEN c
    ELSE FWLoop(FWParam(c, i, g), i + 1, g)

\* a step() call that ran the pass to r
Stepped(cls, g, r) ==
    /\ p' = r.p
    /\ state' = r.state
    /\ trace' = r.trace
    /\ ghist' = r.ghist
    /\ grads' = g
    /\ calls' = calls + 1
    /\ lastOp' = Raised("step", cls, r.err, r.errAt, TRUE)
    /\ UNCHANGED <<kind, cfg, prox, prox2, lmo, args>>

PGDStep(g) ==
    /\ kind = "PGD"
    /\ calls < MaxSteps
    /\ \E r \in {PGDLoop(StartPass, 1, g)} : Stepped("PGD", g, r)

PGDMadryStep(g) ==
    /\ kind = "PGD-Madry"
    /\ calls < MaxSteps
    /\ \E r \in {MadryLoop(StartPass, 1, g)} : Stepped("PGD-Madry", g, r)

S3CMStep(g) ==
    /\ kind = "S3CM"
    /\ calls < MaxSteps
    /\ \E r \in {S3CMLoop(StartPass, 1, g)} : Stepped("S3CM", g, r)

FrankWolfeStep(g) ==
    /\ kind = "Frank-Wolfe"
    /\ calls < MaxSteps
    /\ \E r \in {FWLoop(StartPass, 1, g)} : Stepped("Frank-Wolfe", g, r)

(***************************************************************************)
(* backtracking_step_size                                                  *)
(***************************************************************************)
\* EPS = np.finfo(np.float32).eps = 2^-23
EPS == Pow2(0 - 23)

ratio_decrease == R(9, 10)

\* an estimate that is tripled after a rejected trial
ratio_increase_tripled == N(3)

ratio_increase == N(2)

max_ls_iter == 100

\* the value-and-gradient oracles f_grad the search is called with:
\* 0.5 * x^2, and a function that is 1 everywhere
FGrad(f, x) ==
    IF f = "half_square" THEN [f |-> Mul(Pow2(0 - 1), Mul(x, x)), grad |-> x]
    ELSE [f |-> N(1), grad |-> Zero]

\* lines 68-70: the estimate the first trial uses
Tighten(old_f_t, f_t, certificate, norm_update_direction, lipschitz_t) ==
    LET tmp == Div(Mul(certificate, certificate),
                   Mul(N(2), Mul(Sub(old_f_t, f_t), norm_update_direction)))
    IN  MaxR(MinR(tmp, lipschitz_t), Mul(lipschitz_t, ratio_decrease))

\* the decrease test without its tolerance
SufficientDecreaseExact(f_next, f_t, rhs) ==
    SignSum3(rhs, Zero, Neg(Sub(f_next, f_t))) >= 0

\* f_next - f_t <= rhs + EPS
SufficientDecrease(f_next, f_t, rhs) ==
    SignSum3(rhs, EPS, Neg(Sub(f_next, f_t))) >= 0

\* one trial's step size and right-hand side
Trial(certificate, norm_update_direction, lipschitz_t, max_step_size) ==
    LET s == Div(certificate, Mul(norm_update_direction, lipschitz_t))
    IN  IF Less(s, max_step_size)
        THEN [step_size_t |-> s,
              rhs |-> Mul(Neg(Pow2(0 - 1)), Mul(s, certificate))]
        ELSE [step_size_t |-> max_step_size,
              rhs |-> Add(Neg(Mul(max_step_size, certificate)),
                          Mul(Pow2(0 - 1),
                              Mul(Mul(max_step_size, max_step_size),
                                  Mul(lipschitz_t, norm_update_direction))))]

\* the call: the arguments are bound and the estimate is tightened; the
\* division by 2 * (old_f_t - f_t) * norm_update_direction raises when
\* old_f_t = f_t
LSCall(x, f_t, old_f_t, f_grad, certificate, lipschitz_t, max_step_size, update_direction, norm_update_direction) ==
    /\ ls.pc = "idle"
    /\ LET frame == [LsIdle EXCEPT
                        !.x = x, !.f_t = f_t, !.old_f_t = old_f_t,
                        !.f_grad = f_grad, !.certificate = certificate,
                        !.lipschitz_in = lipschitz_t,
                        !.max_step_size = max_step_size,
                        !.update_direction = update_direction,
                        !.norm_update_direction = norm_update_direction]
       IN  ls' = IF ~old_f_t.has
                 THEN [frame EXCEPT !.pc = "loop", !.lipschitz_t = lipschitz_t]
                 ELSE IF old_f_t.v = f_t
                 THEN [frame EXCEPT !.pc = "raised", !.err = "ZeroDivisionError",
                                    !.lipschitz_t = lipschitz_t]
                 ELSE [frame EXCEPT !.pc = "loop",
                                    !.lipschitz_t =
                                        Tighten(old_f_t.v, f_t, certificate,
                                                norm_update_direction, lipschitz_t)]

\* one iteration of `for _ in range(max_ls_iter)`
LSTrial ==
    /\ ls.pc = "loop"
    /\ ls.trials < max_ls_iter
    /\ \E t \in {Trial(ls.certificate, ls.norm_update_direction, ls.lipschitz_t,
                       ls.max_step_size)} :
       \E r \in {FGrad(ls.f_grad,
                       Add(ls.x, Mul(t.step_size_t, ls.update_direction)))} :
          ls' = IF SufficientDecrease(r.f, ls.f_t, t.rhs)
                THEN [ls EXCEPT !.pc = "returned", !.trials = @ + 1,
                                !.step_size_t = t.step_size_t,
                                !.f_next = r.f, !.grad_next = r.grad]
                ELSE [ls EXCEPT !.trials = @ + 1,
                                !.step_size_t = t.step_size_t,
                                !.f_next = r.f, !.grad_next = r.grad,
                                !.lipschitz_t = Mul(@, ratio_increase)]

\* the loop's else clause: the budget is spent, warn and return
LSExhausted ==
    /\ ls.pc = "loop"
    /\ ls.trials = max_ls_iter
    /\ ls' = [ls EXCEPT !.pc = "returned", !.warned = TRUE]

(***************************************************************************)
(* The arguments the constructors are called with                          *)
(***************************************************************************)
Half == PyFloat(R(1, 2))

MinusOne == PyFloat(N(0 - 1))

SublinearTag == PyStr("sublinear")

IntOne == PyInt(1)

Momentum09 == PyFloat(R(9, 10))

\* PGD(params, prox, lr, momentum, normalization)
PGDArgs ==
    { <<Ascending, Half, Momentum09, "none">>,
      <<NoneLast, SublinearTag, Momentum09, "sign">>,
      <<AllNone, MinusOne, Momentum09, "none">>,
      <<Ascending, IntOne, Momentum09, "none">>,
      <<Ascending, Half, PyFloat(R(3, 2)), "none">>,
      <<Ascending, Half, Momentum09, "gradient">> }

\* PGDMadry(params, lmo, prox, lr)
PGDMadryArgs ==
    { <<Ascending, Ascending, Half>>,
      <<Ascending, AllNone, SublinearTag>>,
      <<Ascending, Ascending, IntOne>> }

\* S3CM(params, prox1, prox2, lr, normalization)
S3CMArgs ==
    { <<AllNone, AllNone, Half, "none">>,
      <<Ascending, Ascending, Half, "sign">>,
      <<Ascending, NoneLast, PyFloat(N(1)), "none">>,
      <<AllNone, AllNone, SublinearTag, "none">>,
      <<AllNone, AllNone, Half, "gradient">> }

\* FrankWolfe(params, lmo, lr, momentum, weight_decay, normalization)
FrankWolfeArgs ==
    { <<Ascending, Half, Momentum09, Zero, "none">>,
      <<Ascending, SublinearTag, Momentum09, Zero, "gradient">>,
      <<Ascending, SublinearTag, PyFloat(R(1, 2)), Zero, "none">>,
      <<Ascending, Half, Momentum09, R(1, 2), "gradient">>,
      <<Ascending, IntOne, Momentum09, Zero, "none">>,
      <<Ascending, PyStr("cosine"), Momentum09, Zero, "none">>,
      <<Ascending, MinusOne, Momentum09, Zero, "none">>,
      <<Ascending, PyFloat(R(3, 2)), Momentum09, Zero, "none">>,
      <<Ascending, Half, PyFloat(R(3, 2)), Zero, "none">>,
      <<Ascending, Half, Momentum09, N(0 - 1), "none">>,
      <<Ascending, Half, Momentum09, Zero, "sign">> }

\* PairwiseFrankWolfe(params, lmo_pairwise, lr, momentum)
PairwiseFrankWolfeArgs ==
    { <<Half, Momentum09>>, <<SublinearTag, Momentum09>>, <<IntOne, Momentum09>>,
      <<PyStr("cosine"), Momentum09>> }

(***************************************************************************)
(* Specification of the optimizers                                         *)
(***************************************************************************)
Init == OptInit /\ ls = LsIdle

ConstructPGD ==
    \E a \in PGDArgs : PGDInit(a[1], a[2], a[3], a[4]) /\ UNCHANGED ls

ConstructPGDMadry ==
    \E a \in PGDMadryArgs : PGDMadryInit(a[1], a[2], a[3]) /\ UNCHANGED ls

ConstructS3CM ==
    \E a \in S3CMArgs : S3CMInit(a[1], a[2], a[3], a[4]) /\ UNCHANGED ls

ConstructFrankWolfe ==
    \E a \in FrankWolfeArgs :
        FrankWolfeInit(a[1], a[2], a[3], a[4], a[5]) /\ UNCHANGED ls

ConstructPairwiseFrankWolfe ==
    \E a \in PairwiseFrankWolfeArgs :
        PairwiseFrankWolfeInit(a[1], a[2]) /\ UNCHANGED ls

StepPGD ==
    \E g \in GradVectors(calls + 1) : PGDStep(g) /\ UNCHANGED ls

StepPGDMadry ==
    \E g \in GradVectors(calls + 1) : PGDMadryStep(g) /\ UNCHANGED ls

StepS3CM ==
    \E g \in GradVectors(calls + 1) : S3CMStep(g) /\ UNCHANGED ls

StepFrankWolfe ==
    \E g \in GradVectors(calls + 1) : FrankWolfeStep(g) /\ UNCHANGED ls

Next ==
    \/ ConstructPGD
    \/ ConstructPGDMadry
    \/ ConstructS3CM
    \/ ConstructFrankWolfe
    \/ ConstructPairwiseFrankWolfe
    \/ StepPGD
    \/ StepPGDMadry
    \/ StepS3CM
    \/ StepFrankWolfe

Spec == Init /\ [][Next]_vars
(***************************************************************************)
(* Specification of the line search                                        *)
(***************************************************************************)
\* where the search starts: x, f_t, f_grad, update_direction
LSStarts ==
    { <<Zero, Zero, "half_square", N(1)>>,
      <<N(1), R(1, 2), "half_square", N(0 - 1)>>,
      <<Zero, Zero, "one", N(1)>> }

LSOldValues == {NoFloat, SomeFloat(Zero), SomeFloat(R(1, 2)), SomeFloat(N(2))}

LSEstimates == {R(1, 4), N(1), N(3)}

LSMaxSteps == {R(1, 2), N(10)}

LSSearch ==
    /\ \E st \in LSStarts, old \in LSOldValues, L \in LSEstimates,
          ms \in LSMaxSteps :
          LSCall(st[1], st[2], old, st[3], N(1), L, ms, st[4], N(1))
    /\ UNCHANGED optVars

LSLoop == LSTrial /\ UNCHANGED optVars

LSGiveUp == LSExhausted /\ UNCHANGED optVars

NextLS == LSSearch \/ LSLoop \/ LSGiveUp

SpecLS == Init /\ [][NextLS]_vars

\* the search runs to its end once it is called: the for loop and its else
\* clause are straight-line code.  This is weak fairness of LSLoop \/ LSGiveUp
\* written out: that step is enabled exactly when ls.pc = "loop" (LSLoop while
\* ls.trials < max_ls_iter, LSGiveUp at max_ls_iter), and it always changes ls.
SpecLSFair ==
    SpecLS /\ ([]<>(ls.pc # "loop") \/ []<><<LSLoop \/ LSGiveUp>>_vars)
(***************************************************************************)
(* Properties                                                              *)
(***************************************************************************)
\* a list that supplies every position with an oracle of its own
Distinct(list) ==
    /\ \A i \in Positions : list[i] # NoneO
    /\ \A i, j \in Positions : list[i] = list[j] => i = j

\* the optimizer was given distinct oracles in every list it takes
DistinctOracles ==
    \/ kind = "PGD" /\ Distinct(args.prox)
    \/ kind = "PGD-Madry" /\ Distinct(args.lmo) /\ Distinct(args.prox)
    \/ kind = "S3CM" /\ Distinct(args.prox) /\ Distinct(args.prox2)
    \/ kind = "Frank-Wolfe" /\ Distinct(args.lmo)

\* the oracles supplied for position i
Supplied(i) ==
    IF kind = "PGD" THEN {<<"prox", args.prox[i]>>}
    ELSE IF kind = "PGD-Madry"
    THEN {<<"lmo", args.lmo[i]>>, <<"prox", args.prox[i]>>}
    ELSE IF kind = "S3CM"
    THEN {<<"prox1", args.prox[i]>>, <<"prox2", args.prox2[i]>>}
    ELSE {<<"lmo", args.lmo[i]>>}

\* the last call was a step() that returned
StepReturned == lastOp.op = "step" /\ lastOp.err = "none"

\* step() processed position i in its last call
Processed(i) == trace[i].idx # 0 - 1

\* C1: with n >= 2 parameters and n distinct oracles, a step() in which every
\* parameter has a gradient updates the parameter at position i by calling the
\* i-th supplied oracle and no other.
C1_PositionCallsItsOwnOracle ==
    (/\ StepReturned
     /\ DistinctOracles
     /\ \A i \in Positions : grads[i].t = "dense")
    => \A i \in Positions : trace[i].called = Supplied(i)

\* C2: in every step() the index into the oracle lists used for a parameter
\* is the parameter's position in the registered list (idx counts from 0),
\* also when an earlier parameter has no gradient and is skipped.
C2_OracleIndexIsPosition ==
    lastOp.op = "step" => \A i \in Positions : Processed(i) => trace[i].idx = i - 1

\* C3: a step() call leaves the value, the state record and the certificate
\* of every parameter whose gradient is absent as they were, whatever happens
\* to the other parameters in the call.
C3_AbsentGradientLeavesParameter ==
    [][calls' = calls + 1 =>
          \A i \in Positions :
              grads'[i].t = "none" => p'[i] = p[i] /\ state'[i] = state[i]]_vars

\* a step() skipped a parameter that already had a state and a certificate,
\* and updated another one
C3_Witness ==
    /\ lastOp.op = "step"
    /\ \E i, j \in Positions :
          /\ grads[i].t = "none"
          /\ state[i].has
          /\ state[i].hasCert
          /\ Processed(j)

\* C4: constructing PGD with a non-positive float learning rate raises, so no
\* PGD instance with such a learning rate exists.
C4_PGDRejectsNonPositiveLr ==
    kind = "PGD" => (IsFloat(cfg.lr) => Less(Zero, cfg.lr.v))

\* S3CM with prox1 = prox2 = identity and normalization 'none'
S3CMPlain ==
    /\ kind = "S3CM"
    /\ cfg.normalization = "none"
    /\ \A i \in Positions : prox[i].id /\ prox2[i].id

\* x_0 - lr * g for the first gradient g of position i
GradientStep(i) == Sub(InitialValue, Mul(cfg.lr.v, ghist[i][1]))

\* C5 as claimed: for S3CM with identity prox operators and normalization
\* 'none' the parameter after the first step() equals x_0 - lr*g.
C5_FirstStepIsGradientStep ==
    S3CMPlain =>
        \A i \in Positions : Len(ghist[i]) = 1 => p[i] = GradientStep(i)

\* C5 as amended: after the first step() the parameter still equals x_0 and
\* it is iterate_1 that equals x_0 - lr*g; the parameter takes that value at
\* its second step().
C5_ParameterLagsOneStep ==
    S3CMPlain =>
        \A i \in Positions :
            /\ Len(ghist[i]) = 1 =>
                  p[i] = InitialValue /\ state[i].iterate_1 = GradientStep(i)
            /\ Len(ghist[i]) = 2 => p[i] = GradientStep(i)

\* a plain S3CM has stepped a parameter twice
C5_Witness == S3CMPlain /\ \E i \in Positions : Len(ghist[i]) = 2

\* the search on f(x) = 0.5*x^2 from x = 0 with f_t = 0, no old_f_t,
\* direction 1 of squared norm 1, certificate 1, max_step_size 10, estimate 1
C6_Search ==
    /\ ls.pc # "idle"
    /\ ls.f_grad = "half_square"
    /\ ls.x = Zero
    /\ ls.f_t = Zero
    /\ ~ls.old_f_t.has
    /\ ls.update_direction = N(1)
    /\ ls.norm_update_direction = N(1)
    /\ ls.certificate = N(1)
    /\ ls.max_step_size = N(10)
    /\ ls.lipschitz_in = N(1)

\* C6 as claimed: that search accepts its first trial, returns step_size 1
\* and f_next 0.5, leaves the Lipschitz estimate at 1 and does not warn.
C6_FirstTrialAccepted ==
    C6_Search /\ ls.pc = "returned" =>
        /\ ls.trials = 1
        /\ ls.step_size_t = N(1)
        /\ ls.f_next = R(1, 2)
        /\ ls.lipschitz_t = N(1)
        /\ ~ls.warned

\* C6 as amended: that search rejects its first trial and doubles the
\* Lipschitz estimate after every rejected trial; it accepts the 24th trial
\* and returns step_size 2^-23, f_next 2^-47 and the estimate 2^23, without a
\* warning.
C6_TwentyFourthTrialAccepted ==
    C6_Search =>
        /\ ls.pc = "loop" => ls.trials < 24 /\ ls.lipschitz_t = Pow2(ls.trials)
        /\ ls.pc = "returned" =>
              /\ ls.trials = 24
              /\ ls.step_size_t = Pow2(0 - 23)
              /\ ls.f_next = Pow2(0 - 47)
              /\ ls.lipschitz_t = Pow2(23)
              /\ ~ls.warned

\* that search has returned
C6_Witness == C6_Search /\ ls.pc = "returned"

\* C7: constructing PairwiseFrankWolfe fails with a not-implemented error
\* for every argument combination, before any parameter registration or
\* optimizer state has been built.
C7_PairwiseFailsNotImplementedFirst ==
    lastOp.op = "construct" /\ lastOp.cls = "Pairwise-FW" =>
        lastOp.err = "NotImplementedError" /\ ~lastOp.registered

\* C8: a FrankWolfe learning rate that is neither a positive float nor
\* 'sublinear' is rejected by the constructor: it never happens that step()
\* raises the error for it after creating a parameter's state record.
C8_FrankWolfeLrRejectedAtConstruction ==
    ~(/\ lastOp.op = "step"
      /\ lastOp.cls = "Frank-Wolfe"
      /\ lastOp.err = "ValueError"
      /\ state[lastOp.errAt].has)

\* the step count of a state record (0 when there is none yet)
StepCount(st) == IF st.has THEN st.step ELSE 0

\* position j was updated by the transition: its state is there, in the
\* optimizers that count steps the count went up by one, and the new value is
\* the one its state and certificate were computed with
Committed(j) ==
    /\ state'[j].has
    /\ trace'[j].idx # 0 - 1
    /\ kind # "S3CM" => state'[j].step = StepCount(state[j]) + 1
    /\ kind = "S3CM" => p'[j] = state'[j].iterate_2
    /\ kind \in {"PGD", "PGD-Madry"} =>
          /\ state'[j].hasCert
          /\ state'[j].certificate =
                AbsR(Div(Sub(p[j], p'[j]), trace'[j].step_size))
    /\ kind = "Frank-Wolfe" =>
          /\ state'[j].hasCert
          /\ state'[j].grad_estimate =
                Add(state[j].grad_estimate,
                    Mul(Sub(N(1), cfg.momentum.v),
                        Sub(Add(grads'[j].v, Mul(cfg.weight_decay, p[j])),
                            state[j].grad_estimate)))

\* the first position with a sparse gradient (0: there is none)
FirstSparse(g) ==
    IF \E i \in Positions : g[i].t = "sparse"
    THEN CHOOSE i \in Positions :
            /\ g[i].t = "sparse"
            /\ \A j \in Positions : g[j].t = "sparse" => i <= j
    ELSE 0

\* C9: a step() that meets a sparse gradient raises for that parameter; the
\* parameters processed before it keep their new value and updated state; the
\* failing parameter and all later ones keep their value and state, and no
\* state is created for the failing one.
C9_SparseGradientAbortsFromThere ==
    [][calls' = calls + 1 =>
          /\ (FirstSparse(grads') # 0 /\ lastOp'.err \in {"none", "RuntimeError"})
                => lastOp'.err = "RuntimeError"
                   /\ lastOp'.errAt = FirstSparse(grads')
          /\ lastOp'.err = "RuntimeError" =>
                \A j \in Positions :
                    /\ j >= lastOp'.errAt => p'[j] = p[j] /\ state'[j] = state[j]
                    /\ (j < lastOp'.errAt /\ grads'[j].t = "dense") => Committed(j)
                    /\ (j < lastOp'.errAt /\ grads'[j].t = "none") =>
                          p'[j] = p[j] /\ state'[j] = state[j]]_vars

\* a step() raised at a later position, a parameter before it had been
\* updated, and the failing parameter has no state
C9_Witness ==
    /\ lastOp.op = "step"
    /\ lastOp.err = "RuntimeError"
    /\ lastOp.errAt > 1
    /\ grads[lastOp.errAt].t = "sparse"
    /\ ~state[lastOp.errAt].has
    /\ \E j \in Positions : j < lastOp.errAt /\ Processed(j) /\ p[j] # InitialValue

\* the average of the gradients gs with fixed momentum m, started at zero:
\* new = old + (1 - m) * (gradient - old)
RECURSIVE Averaged(_, _)
Averaged(gs, m) ==
    IF gs = <<>> THEN Zero
    ELSE LET old == Averaged(SubSeq(gs, 1, Len(gs) - 1), m)
         IN  Add(old, Mul(Sub(N(1), m), Sub(gs[Len(gs)], old)))

\* C10: in FrankWolfe with fixed momentum m and weight_decay 0, grad_estimate
\* starts at zero and after each step is old + (1 - m)*(gradient - old); with
\* gradients 1, 2, 3 and m = 0.9 it is 0.1, 0.29 and 0.561.
C10_GradEstimateIsMovingAverage ==
    (kind = "Frank-Wolfe" /\ IsFloat(cfg.momentum) /\ cfg.weight_decay = Zero) =>
        \A i \in Positions :
            /\ state[i].grad_estimate = Averaged(ghist[i], cfg.momentum.v)
            /\ cfg.momentum.v = R(9, 10) =>
                  /\ ghist[i] = <<N(1)>> => state[i].grad_estimate = R(1, 10)
                  /\ ghist[i] = <<N(1), N(2)>> =>
                        state[i].grad_estimate = R(29, 100)
                  /\ ghist[i] = <<N(1), N(2), N(3)>> =>
                        state[i].grad_estimate = R(561, 1000)

\* FrankWolfe with momentum 0.9 and no weight decay has seen 1, 2, 3
C10_Witness ==
    /\ kind = "Frank-Wolfe"
    /\ cfg.momentum = PyFloat(R(9, 10))
    /\ cfg.weight_decay = Zero
    /\ \E i \in Positions : ghist[i] = <<N(1), N(2), N(3)>>

\* the update of position i completed in the step() call just made: the
\* parameter had a dense gradient, the pass reached it, and no exception left
\* the pass there
UpdateCompleted(i) ==
    /\ grads'[i].t = "dense"
    /\ trace'[i].idx # 0 - 1
    /\ ~(lastOp'.err # "none" /\ lastOp'.errAt = i)

\* C11: in PGD, PGDMadry and FrankWolfe a parameter's state record, once
\* created, is never removed or re-initialised, and its step count goes up by
\* exactly one in every step() call in which the parameter had a gradient and
\* its update completed, and stays as it is in every other call (so it never
\* decreases and counts the completed updates).
C11_StepCountsCompletedUpdates ==
    [][(calls' = calls + 1 /\ kind \in {"PGD", "PGD-Madry", "Frank-Wolfe"}) =>
          \A i \in Positions :
              /\ state[i].has => state'[i].has
              /\ StepCount(state'[i]) =
                    StepCount(state[i]) + (IF UpdateCompleted(i) THEN 1 ELSE 0)]_vars

\* the estimate the first trial uses
FirstEstimate ==
    IF ls.old_f_t.has
    THEN Tighten(ls.old_f_t.v, ls.f_t, ls.certificate, ls.norm_update_direction,
                 ls.lipschitz_in)
    ELSE ls.lipschitz_in

\* f_next - f_t <= rhs + eps
DecreaseHolds(f_next, f_t, rhs) == SignSum3(rhs, EPS, Neg(Sub(f_next, f_t))) >= 0

\* the values in ls are those of a trial made with the estimate L, and that
\* trial satisfied (ok) or did not satisfy (~ok) the decrease test
LastTrialWas(L, ok) ==
    \E t \in {Trial(ls.certificate, ls.norm_update_direction, L,
                    ls.max_step_size)} :
    \E r \in {FGrad(ls.f_grad,
                    Add(ls.x, Mul(t.step_size_t, ls.update_direction)))} :
        /\ ls.step_size_t = t.step_size_t
        /\ ls.f_next = r.f
        /\ ls.grad_next = r.grad
        /\ DecreaseHolds(r.f, ls.f_t, t.rhs) = ok

\* at most 100 evaluations; while the loop runs and after a warning every
\* trial so far was rejected and doubled the estimate; a return without a
\* warning follows an accepted trial, the only one that did not double it
C12_Trials ==
    /\ ls.trials <= 100
    /\ ls.warned => ls.pc = "returned" /\ ls.trials = 100
    /\ (ls.pc = "loop" \/ ls.warned) =>
          \E first \in {FirstEstimate} :
              /\ ls.lipschitz_t = Mul(first, Pow2(ls.trials))
              /\ ls.trials >= 1 =>
                    \E L \in {Mul(ls.lipschitz_t, Pow2(0 - 1))} :
                        LastTrialWas(L, FALSE)
    /\ (ls.pc = "returned" /\ ~ls.warned) =>
          \E first \in {FirstEstimate} :
              /\ ls.trials >= 1
              /\ ls.lipschitz_t = Mul(first, Pow2(ls.trials - 1))
              /\ LastTrialWas(ls.lipschitz_t, TRUE)

\* every pass through the loop is one more evaluation; after the 100th
\* rejected trial the search warns and returns what that trial left, and a
\* returned search does nothing more
C12_GiveUp ==
    /\ (ls.pc = "loop" /\ ls.trials < 100) =>
          ls'.trials = ls.trials + 1 /\ ls'.pc \in {"loop", "returned"}
    /\ (ls.pc = "loop" /\ ls.trials = 100) =>
          ls' = [ls EXCEPT !.pc = "returned", !.warned = TRUE]
    /\ ls.pc = "returned" => ls' = ls

\* C12: backtracking_step_size ends after at most 100 evaluations of f_grad;
\* it warns exactly when none of the 100 trials satisfied
\* f_next - f_t <= rhs + eps, and then still returns the step size, f_next and
\* grad_next of the 100th trial; the Lipschitz estimate is doubled once for
\* each rejected trial and not changed otherwise inside the loop.
C12_LineSearchEndsWithinBudget ==
    /\ []C12_Trials
    /\ [][C12_GiveUp]_vars
    /\ (ls.pc = "loop") ~> (ls.pc = "returned")

\* a search that spent all 100 trials, warned and returned
C12_Witness ==
    /\ ls.pc = "returned"
    /\ ls.warned
    /\ ls.trials = 100
    /\ \E first \in {FirstEstimate} : ls.lipschitz_t = Mul(first, Pow2(100))

\* C13: whenever old_f_t is available (old_f_t <= f_t included) the
\* tightening step completes without error, and the estimate the first trial
\* uses lies within [0.9 * L, L] of the estimate L passed in.
C13_TighteningCompletes ==
    (ls.pc # "idle" /\ ls.old_f_t.has) =>
        /\ ls.pc # "raised"
        /\ (ls.pc = "loop" /\ ls.trials = 0) =>
              /\ Leq(Mul(R(9, 10), ls.lipschitz_in), ls.lipschitz_t)
              /\ Leq(ls.lipschitz_t, ls.lipschitz_in)

\* position i was updated by the FrankWolfe step() call just made
FWUpdated(i) == kind = "Frank-Wolfe" /\ calls' = calls + 1 /\ UpdateCompleted(i)

\* C14 as claimed: with 'sublinear' lr the k-th completed step of a parameter
\* multiplies the LMO direction by 1/k, under normalization 'none' and
\* 'gradient' alike, and the step size always lies in [0, 1].
C14_SublinearStepIsOneOverK ==
    [][\A i \in Positions :
          FWUpdated(i) =>
              /\ Leq(Zero, trace'[i].step_size)
              /\ Leq(trace'[i].step_size, N(1))
              /\ IsSublinear(cfg.lr) =>
                    trace'[i].step_size = R(1, state'[i].step)]_vars

\* the direction the oracle of position i returned in the call just made
FWDirection(i) ==
    OracleLmo(lmo[trace'[i].idx + 1].target, Neg(state'[i].grad_estimate), p[i])

\* lr, or 1/k in the k-th step under 'sublinear'
FWRate(i) == IF IsSublinear(cfg.lr) THEN R(1, state'[i].step) ELSE cfg.lr.v

\* C14 as amended: the step size multiplied into the LMO direction d lies in
\* [0, 1]; under normalization 'none' it is lr, or 1/k in the k-th completed
\* step with 'sublinear' lr; under 'gradient' it is
\* min(1, rate * |grad_estimate| / |d|) for that rate (1 when d = 0); the
\* parameter moves by step size * d, so it stays in the oracle's set once it
\* is in it.
C14_StepSizeWithinUnitInterval ==
    [][\A i \in Positions :
          FWUpdated(i) =>
              \E d \in {FWDirection(i)}, rate \in {FWRate(i)},
                 size \in {trace'[i].step_size} :
                  /\ Leq(Zero, size) /\ Leq(size, N(1))
                  /\ cfg.normalization = "none" => size = rate
                  /\ (cfg.normalization = "gradient" /\ d # Zero) =>
                        size = MinR(N(1), Div(Mul(rate, AbsR(state'[i].grad_estimate)),
                                              AbsR(d)))
                  /\ (cfg.normalization = "gradient" /\ d = Zero) => size = N(1)
                  /\ p'[i] = Add(p[i], Mul(size, d))
                  /\ \A r \in 1 .. NParams :
                        (lmo[trace'[i].idx + 1].target = r /\ AbsLeq(p[i], N(r)))
                            => AbsLeq(p'[i], N(r))]_vars

\* FrankWolfe with 'sublinear' lr and 'gradient' normalization has completed
\* a second or later step of a parameter with a step size other than 1/k
C14_Witness ==
    /\ kind = "Frank-Wolfe"
    /\ IsSublinear(cfg.lr)
    /\ lastOp.op = "step" /\ lastOp.err = "none"
    /\ \E i \in Positions :
          /\ trace[i].idx # 0 - 1
          /\ state[i].step >= 2
          /\ cfg.normalization = "gradient"
          /\ trace[i].step_size # R(1, state[i].step)

====
